---------------------------- MODULE Spec2Model ----------------------------
(***************************************************************************)
(* Tool Launcher: the configuration data model and its normalize / mutate  *)
(* / persist cycle.                                                        *)
(*                                                                         *)
(*   tool_launcher_logic.py  class ToolLauncherLogic  (the core)           *)
(*   tool_launcher_gui.py    class ToolLauncherGUI    (its caller)         *)
(*   ToolLauncer.py          class ToolLauncher       (the one-file        *)
(*                                                     variant)            *)
(*                                                                         *)
(* Text is a sequence of one-character strings, so that lower(), the       *)
(* substring test, strip(), replace() and endswith() are computed.         *)
(* A JSON object with insertion order (a Python dict) is a sequence of     *)
(* [k, v] entries with distinct keys.  An item is a record whose domain    *)
(* is the set of keys the JSON object has; JSON null is Null.              *)
(***************************************************************************)
EXTENDS Integers, Sequences, FiniteSets, TLC

VARIABLES
    configs_list,     \* self.configs_list: sequence of [name, config_path]
    current_config,   \* self.current_config: an entry, or NoConfig
    json_file,        \* self.json_file: a path, or NoPath
    raw_data,         \* self.raw_data: the catalogue as read from its file
    grouped_data,     \* self.grouped_data: category -> type -> items
    launch_history,   \* self.launch_history
    files,            \* the catalogue files on disk: path -> content
    app_config_file,  \* "configs" of data/app_config.json
    history_file,     \* data/launch_history.json
    now,              \* the clock datetime.now() reads, in ticks
    sidebar_mode,     \* ToolLauncherGUI.sidebar_mode
    editing_item,     \* ToolLauncherGUI.editing_item: [cat, typ, idx, itm], or Null
    last              \* the most recent call and how it ended

vars == <<configs_list, current_config, json_file, raw_data, grouped_data,
          launch_history, files, app_config_file, history_file, now,
          sidebar_mode, editing_item, last>>

(***************************************************************************)
(* Text                                                                    *)
(***************************************************************************)
UpperCase == <<"A", "B", "C", "D", "E", "F", "G", "H", "I", "J", "K", "L", "M",
               "N", "O", "P", "Q", "R", "S", "T", "U", "V", "W", "X", "Y", "Z">>
LowerCase == <<"a", "b", "c", "d", "e", "f", "g", "h", "i", "j", "k", "l", "m",
               "n", "o", "p", "q", "r", "s", "t", "u", "v", "w", "x", "y", "z">>

\* str.lower() on one character
LowerChar(ch) ==
    IF \E i \in DOMAIN UpperCase : UpperCase[i] = ch
    THEN LowerCase[CHOOSE i \in DOMAIN UpperCase : UpperCase[i] = ch]
    ELSE ch

\* str.lower()
Lower(s) == [i \in DOMAIN s |-> LowerChar(s[i])]

\* the Python test `q in s` on two strings: q is a contiguous part of s
Contains(s, q) ==
    \E i \in 0..(Len(s) - Len(q)) : SubSeq(s, i + 1, i + Len(q)) = q

(***************************************************************************)
(* Ordered dictionaries (Python dict, JSON object)                         *)
(***************************************************************************)
EmptyDict == <<>>

\* k in d
HasKey(d, k) == \E i \in DOMAIN d : d[i].k = k

KeyIndex(d, k) == CHOOSE i \in DOMAIN d : d[i].k = k

\* d[k]
Lookup(d, k) == d[KeyIndex(d, k)].v

\* d[k] = v: an existing key keeps its place, a new key goes last
Store(d, k, v) ==
    IF HasKey(d, k)
    THEN [d EXCEPT ![KeyIndex(d, k)] = [k |-> k, v |-> v]]
    ELSE Append(d, [k |-> k, v |-> v])

\* del d[k]
Remove(d, k) ==
    LET i == KeyIndex(d, k)
    IN  SubSeq(d, 1, i - 1) \o SubSeq(d, i + 1, Len(d))

\* a deletion that takes the first entry whatever the index (not the code's)
RemoveFirst(lst, idx) == Tail(lst)

\* del lst[idx], idx counted from 0
RemoveAt(lst, idx) == SubSeq(lst, 1, idx) \o SubSeq(lst, idx + 2, Len(lst))

(***************************************************************************)
(* Items and catalogues                                                    *)
(***************************************************************************)
\* JSON null (Python None)
Null == [null |-> TRUE]

\* the JSON object {} (an empty Python dict)
EmptyObj == <<>>

\* Python truthiness of a list entry: None and {} are false
Truthy(it) == it # Null /\ it # EmptyObj

\* item.get(key, default)
GetField(it, key, default) == IF key \in DOMAIN it THEN it[key] ELSE default

\* item[key] = value
SetField(it, key, value) == (key :> value) @@ it

\* a bucket of the nested shape: a list of items, or one item object
ListBucket(items) == [kind |-> "list", items |-> items]
ObjBucket(it) == [kind |-> "obj", items |-> <<it>>]

\* the two shapes of a catalogue, and what an unparsable file holds
NestedRaw(cats) == [shape |-> "map", recs |-> <<>>, cats |-> cats]
FlatRaw(recs) == [shape |-> "list", recs |-> recs, cats |-> <<>>]
Corrupt == [shape |-> "corrupt", recs |-> <<>>, cats |-> <<>>]
EmptyRaw == NestedRaw(EmptyDict)

NoConfig == <<>>
NoPath == <<>>

(***************************************************************************)
(* ToolLauncherLogic: loading, saving, normalizing                         *)
(***************************************************************************)
Uncategorized == <<"u", "n", "c", "a", "t", "e", "g", "o", "r", "i", "z", "e", "d">>

\* g.setdefault(c, {}).setdefault(t, []).append(it)
GroupAppend(g, c, t, it) ==
    LET types == IF HasKey(g, c) THEN Lookup(g, c) ELSE EmptyDict
        items == IF HasKey(types, t) THEN Lookup(types, t) ELSE <<>>
    IN  Store(g, c, Store(types, t, Append(items, it)))

\* _normalize, list branch: the records seen so far grouped into g
RECURSIVE NormalizeList(_, _)
NormalizeList(recs, g) ==
    IF recs = <<>> THEN g
    ELSE LET i == Head(recs)
             c == Lower(GetField(i, "category", Uncategorized))
             t == Lower(GetField(i, "type", <<>>))
         IN  NormalizeList(Tail(recs), GroupAppend(g, c, t, i))

\* _normalize, dict branch, inner loop: g[c][t] = lst for every type of one category
RECURSIVE NormalizeTypes(_, _)
NormalizeTypes(types, gc) ==
    IF types = <<>> THEN gc
    ELSE NormalizeTypes(Tail(types),
                        Store(gc, Lower(Head(types).k), Head(types).v.items))

\* _normalize, dict branch, outer loop: g[c] = {} and then its types
RECURSIVE NormalizeCats(_, _)
NormalizeCats(cats, g) ==
    IF cats = <<>> THEN g
    ELSE NormalizeCats(Tail(cats),
                       Store(g, Lower(Head(cats).k),
                             NormalizeTypes(Head(cats).v, EmptyDict)))

\* _normalize raises AttributeError on a null record of a list: None.get
_normalize_raises(data) ==
    data.shape = "list" /\ \E i \in DOMAIN data.recs : data.recs[i] = Null

\* _normalize(data), when it returns
_normalize(data) ==
    IF data.shape = "list" THEN NormalizeList(data.recs, EmptyDict)
    ELSE NormalizeCats(data.cats, EmptyDict)

\* _load_json: what it returns for the file at path
_load_json(path) ==
    IF path \in DOMAIN files /\ files[path] # Corrupt THEN files[path] ELSE EmptyRaw

\* _load_json: the disk afterwards (a missing or unparsable file is replaced by {})
_load_json_files(path) ==
    IF path \in DOMAIN files /\ files[path] # Corrupt THEN files
    ELSE (path :> EmptyRaw) @@ files

\* _save_json: the disk after the write of data to json_file
_save_json(data) ==
    IF json_file = NoPath THEN files ELSE (json_file :> data) @@ files


(***************************************************************************)
(* ToolLauncherLogic: item management.  Each operation is a function of    *)
(* raw_data that gives what the call does to it and how the call ends:     *)
(* "ok" (True), "fail" (False) or "raise" (an exception leaves the call).  *)
(***************************************************************************)
Outcome(ret, raw) == [ret |-> ret, raw |-> raw]

\* add_item up to the save: the presence check and the change of raw_data
add_item_raw(raw, cat, typ, name, path) ==
    LET new == [name |-> name, path |-> path]
        c == Lower(cat)
        t == Lower(typ)
        types == IF HasKey(raw.cats, c) THEN Lookup(raw.cats, c) ELSE EmptyDict
        bucket == IF HasKey(types, t) THEN Lookup(types, t) ELSE ListBucket(<<>>)
    IN  IF cat = <<>> \/ typ = <<>> \/ name = <<>> \/ path = <<>>
        THEN Outcome("fail", raw)
        ELSE IF raw.shape = "list"
        THEN Outcome("raise", raw)      \* list has no setdefault
        ELSE IF bucket.kind = "obj"
        THEN Outcome("raise", raw)      \* dict has no append
        ELSE Outcome("ok",
                 NestedRaw(Store(raw.cats, c,
                     Store(types, t, ListBucket(Append(bucket.items, new))))))

\* len(items) of a bucket value: a list's length, a dict's number of keys
BucketLen(bucket) ==
    IF bucket.kind = "list" THEN Len(bucket.items)
    ELSE Cardinality(DOMAIN bucket.items[1])

\* `c in self.raw_data and t in self.raw_data[c]`: on a list, `in` compares
\* the text c with the records, and no record equals a text
Addressed(raw, c, t) ==
    /\ raw.shape = "map"
    /\ HasKey(raw.cats, c)
    /\ HasKey(Lookup(raw.cats, c), t)

\* edit_item up to the save
edit_item_raw(raw, cat, typ, idx, new_name, new_path) ==
    LET c == Lower(cat)
        t == Lower(typ)
        types == Lookup(raw.cats, c)
        bucket == Lookup(types, t)
        it == bucket.items[idx + 1]
    IN  IF ~Addressed(raw, c, t) THEN Outcome("fail", raw)
        ELSE IF ~(0 <= idx /\ idx < BucketLen(bucket)) THEN Outcome("fail", raw)
        ELSE IF bucket.kind = "obj" \/ it = Null
        THEN Outcome("raise", raw)      \* KeyError: idx / None[...] = ...
        ELSE Outcome("ok",
                 NestedRaw(Store(raw.cats, c,
                     Store(types, t,
                         ListBucket([bucket.items EXCEPT ![idx + 1] =
                             SetField(SetField(it, "name", new_name),
                                      "path", new_path)])))))

\* a deletion that leaves the emptied bucket and its category in place (not
\* the code's)
KeepEmpty(cats, c, t, items) ==
    Store(cats, c, Store(Lookup(cats, c), t, ListBucket(items)))

\* delete_item, "Clean up empty structures": an emptied bucket loses its
\* type key, a category left without types loses its key
CleanUp(cats, c, t, items) ==
    LET types == IF items = <<>> THEN Remove(Lookup(cats, c), t)
                 ELSE Store(Lookup(cats, c), t, ListBucket(items))
    IN  IF types = EmptyDict THEN Remove(cats, c) ELSE Store(cats, c, types)

\* delete_item up to the save
delete_item_raw(raw, cat, typ, idx) ==
    LET c == Lower(cat)
        t == Lower(typ)
        bucket == Lookup(Lookup(raw.cats, c), t)
    IN  IF ~Addressed(raw, c, t) THEN Outcome("fail", raw)
        ELSE IF ~(0 <= idx /\ idx < BucketLen(bucket)) THEN Outcome("fail", raw)
        ELSE IF bucket.kind = "obj"
        THEN Outcome("raise", raw)      \* KeyError: del items[idx] on a dict
        ELSE Outcome("ok",
                 NestedRaw(CleanUp(raw.cats, c, t, RemoveAt(bucket.items, idx))))

(***************************************************************************)
(* ToolLauncherLogic: search and filter                                    *)
(***************************************************************************)
\* a match on the name alone (not the code's)
MatchesName(q, it) ==
    q = <<>> \/ Contains(Lower(GetField(it, "name", <<>>)), q)

\* the condition of the list comprehension for one item
Matches(q, it) ==
    \/ q = <<>>
    \/ Contains(Lower(GetField(it, "name", <<>>)), q)
    \/ Contains(Lower(GetField(it, "path", <<>>)), q)

\* a filter that numbers the matches by their place in the result (not the
\* code's)
Renumbered(items, q, i) ==
    LET m == SelectSeq(items, LAMBDA it : Matches(q, it))
    IN  [k \in 1..Len(m) |-> <<k - 1, m[k]>>]

\* [(i, it) for i, it in enumerate(items) if ...], i counted from 0
RECURSIVE MatchesOf(_, _, _)
MatchesOf(items, q, i) ==
    IF i > Len(items) THEN <<>>
    ELSE (IF Matches(q, items[i]) THEN <<<<i - 1, items[i]>>>> ELSE <<>>)
         \o MatchesOf(items, q, i + 1)

\* a filter that lists a bucket also when nothing in it matches (not the
\* code's)
RECURSIVE FilterTypesAll(_, _, _, _)
FilterTypesAll(types, c, q, out) ==
    IF types = <<>> THEN out
    ELSE LET m == MatchesOf(Head(types).v, q, 1)
             oc == IF HasKey(out, c) THEN Lookup(out, c) ELSE EmptyDict
         IN  FilterTypesAll(Tail(types), c, q,
                 Store(out, c, Store(oc, Head(types).k, m)))

\* the inner loop: out.setdefault(c, {})[t] = matches, when matches is not empty
RECURSIVE FilterTypes(_, _, _, _)
FilterTypes(types, c, q, out) ==
    IF types = <<>> THEN out
    ELSE LET m == MatchesOf(Head(types).v, q, 1)
             oc == IF HasKey(out, c) THEN Lookup(out, c) ELSE EmptyDict
         IN  FilterTypes(Tail(types), c, q,
                 IF m = <<>> THEN out ELSE Store(out, c, Store(oc, Head(types).k, m)))

RECURSIVE FilterCats(_, _, _)
FilterCats(g, q, out) ==
    IF g = <<>> THEN out
    ELSE FilterCats(Tail(g), q, FilterTypes(Head(g).v, Head(g).k, q, out))

\* get_filtered_items raises AttributeError when the comprehension reaches
\* None.get: the query is not empty and some bucket holds a null
FilterRaises(g, query) ==
    /\ Lower(query) # <<>>
    /\ \E i \in DOMAIN g : \E j \in DOMAIN g[i].v :
           \E n \in DOMAIN g[i].v[j].v : g[i].v[j].v[n] = Null

\* get_filtered_items(query), on the grouped view g, when it returns
get_filtered_items_of(g, query) == FilterCats(g, Lower(query), EmptyDict)


(***************************************************************************)
(* The inputs the model draws from                                         *)
(***************************************************************************)
\* a catalogue holds at most this many list entries before add_item is
\* no longer called
MaxItems == 2

dev == <<"d", "e", "v">>
Dev == <<"D", "e", "v">>
web == <<"w", "e", "b">>
Web == <<"W", "e", "b">>
dir == <<"d", "i", "r">>
Dir == <<"D", "i", "r">>
url == <<"u", "r", "l">>
Url == <<"U", "r", "l">>

NameAb == <<"A", "b">>
NameC == <<"c">>
PathP == <<"/", "p">>
PathB == <<"/", "B">>

Item1 == [name |-> NameAb, path |-> PathP]
Item2 == [name |-> NameC, path |-> PathB]
Rec1 == [category |-> Dev, type |-> dir, name |-> NameAb, path |-> PathP]
Rec2 == [category |-> dev, type |-> dir, name |-> NameC, path |-> PathB]

Entry(k, v) == [k |-> k, v |-> v]

\* catalogue files a user can have: both shapes, a single item object as a
\* bucket, keys that are not lower-case, keys that differ in case only,
\* null and {} entries, empty buckets, records without category and type
Catalogues ==
    { EmptyRaw,
      NestedRaw(<<Entry(dev, <<Entry(dir, ListBucket(<<Item1, Item2>>))>>)>>),
      NestedRaw(<<Entry(dev, <<Entry(dir, ObjBucket(Item1))>>)>>),
      NestedRaw(<<Entry(Dev, <<Entry(Dir, ListBucket(<<Item1>>))>>)>>),
      NestedRaw(<<Entry(dev, <<Entry(dir, ListBucket(<<Item1>>))>>),
                  Entry(Dev, <<Entry(dir, ListBucket(<<Item2>>))>>)>>),
      NestedRaw(<<Entry(dev, <<Entry(dir, ListBucket(<<Null, Item1, EmptyObj>>))>>)>>),
      NestedRaw(<<Entry(dev, <<Entry(dir, ListBucket(<<>>)),
                               Entry(url, ObjBucket(EmptyObj))>>)>>),
      NestedRaw(<<Entry(dev, <<Entry(dir, ListBucket(<<Item1>>)),
                               Entry(url, ListBucket(<<Item2>>))>>),
                  Entry(web, <<Entry(url, ListBucket(<<Item1>>))>>)>>),
      FlatRaw(<<Rec1>>),
      FlatRaw(<<Rec1, Rec2>>),
      FlatRaw(<<Rec1, Null, Item2>>) }

\* what the catalogue file of a configuration can hold when the program starts
DiskContents == Catalogues \cup {Corrupt}

ConfigA == <<"A">>
ConfigZ == <<"Z">>
FileA == <<"/", "d", "/", "a", ".", "j", "s", "o", "n">>

\* the (category, type) pairs the calls name: two types of one category,
\* and another category; as the user types them, not always lower-case
Buckets == {<<dev, dir>>, <<dev, Url>>, <<Web, Url>>}
Names == {NameC}
FormNames == {<<" ", "c">>, <<" ">>}
FormPaths == {PathP}
Paths == {PathP}
NewNames == {NameC}
NewPaths == {PathB}
Indices == -1 .. MaxItems
Queries == {<<>>, <<"a">>, <<"B">>, <<"c">>, <<"z">>}

\* the list entries of a catalogue, counted
RECURSIVE SumLens(_)
SumLens(types) ==
    IF types = <<>> THEN 0 ELSE Len(Head(types).v.items) + SumLens(Tail(types))

RECURSIVE SumCats(_)
SumCats(cats) ==
    IF cats = <<>> THEN 0 ELSE SumLens(Head(cats).v) + SumCats(Tail(cats))

ItemCount(raw) == Len(raw.recs) + SumCats(raw.cats)

(***************************************************************************)
(* ToolLauncherLogic: the public operations on the catalogue               *)
(***************************************************************************)
Call(op, ret, arg) == [op |-> op, ret |-> ret, arg |-> arg]

\* `for c in self.configs_list: if c["name"] == name`: the first such entry
NameExists(list, name) == \E i \in DOMAIN list : list[i].name = name

FirstNamed(list, name) ==
    list[CHOOSE i \in DOMAIN list :
             /\ list[i].name = name
             /\ \A j \in 1..(i - 1) : list[j].name # name]

\* select_config(name) on the directory list: what it assigns when an entry
\* has that name.  An exception in _normalize leaves the call after
\* current_config, json_file and raw_data were assigned.
Selected(list, name) ==
    LET c == FirstNamed(list, name)
        raw == _load_json(c.config_path)
    IN  [current_config |-> c,
         json_file |-> c.config_path,
         files |-> _load_json_files(c.config_path),
         raw_data |-> raw,
         grouped_data |-> IF _normalize_raises(raw) THEN grouped_data
                          ELSE _normalize(raw),
         ret |-> IF _normalize_raises(raw) THEN "raise" ELSE "ok"]

\* select_config(name)
select_config(name) ==
    IF NameExists(configs_list, name)
    THEN LET sel == Selected(configs_list, name)
         IN  /\ current_config' = sel.current_config
             /\ json_file' = sel.json_file
             /\ files' = sel.files
             /\ raw_data' = sel.raw_data
             /\ grouped_data' = sel.grouped_data
             /\ last' = Call("select_config", sel.ret, <<>>)
             /\ UNCHANGED <<configs_list, launch_history, app_config_file,
                            history_file, now,
                   sidebar_mode, editing_item>>
    ELSE /\ last' = Call("select_config", "fail", <<>>)
         /\ UNCHANGED <<configs_list, current_config, json_file, raw_data,
                        grouped_data, launch_history, files, app_config_file,
                        history_file, now,
                   sidebar_mode, editing_item>>

\* the bucket of a grouped view (or of any category -> type -> value map)
HasBucket(g, c, t) == HasKey(g, c) /\ HasKey(Lookup(g, c), t)
BucketOf(g, c, t) == IF HasBucket(g, c, t) THEN Lookup(Lookup(g, c), t) ELSE <<>>

\* what an item operation that ended as r leaves: on success raw_data is
\* changed, saved (_save_json) and normalized again; otherwise nothing changed.
\* disk tells whether open(json_file, "w") succeeds: _save_json does not catch
\* the error, which leaves the call after raw_data was changed in place and
\* before grouped_data is derived again.
ItemEffect(op, r, arg, disk) ==
    LET saved == r.ret = "ok" /\ (disk = "written" \/ json_file = NoPath)
    IN  /\ raw_data' = r.raw
        /\ files' = IF saved THEN _save_json(r.raw) ELSE files
        /\ grouped_data' = IF saved THEN _normalize(r.raw) ELSE grouped_data
        /\ last' = Call(op,
                        IF r.ret = "ok" /\ ~saved THEN "raise" ELSE r.ret,
                        IF saved THEN arg
                        ELSE IF r.ret = "ok" THEN [disk |-> disk]
                        ELSE <<>>)
        /\ UNCHANGED <<configs_list, current_config, json_file, launch_history,
                       app_config_file, history_file, now>>

\* an item operation called by anything but the sidebar's save button
ItemOperation(op, r, arg, disk) ==
    ItemEffect(op, r, arg, disk) /\ UNCHANGED <<sidebar_mode, editing_item>>

\* what the caller of a successful add_item saw: the bucket before the call,
\* the index at which the view shows the new item afterwards (-1: nowhere),
\* and the four fields it gave
Added(cat, typ, name, path, raw) ==
    LET c == Lower(cat)
        t == Lower(typ)
        after == BucketOf(_normalize(raw), c, t)
    IN  [cat |-> c, typ |-> t,
         idx |-> IF after # <<>> /\ after[Len(after)] = [name |-> name, path |-> path]
                 THEN Len(after) - 1 ELSE -1,
         before |-> BucketOf(grouped_data, c, t),
         had_bucket |-> HasBucket(grouped_data, c, t),
         had_cat |-> HasKey(grouped_data, c),
         given |-> <<cat, typ, name, path>>]

\* add_item(cat, typ, name, path), on a disk that takes the write or not
add_item(cat, typ, name, path, disk) ==
    /\ ItemCount(raw_data) < MaxItems
    /\ LET r == add_item_raw(raw_data, cat, typ, name, path)
       IN  ItemOperation("add_item", r, Added(cat, typ, name, path, r.raw), disk)

\* edit_item(cat, typ, idx, new_name, new_path)
edit_item(cat, typ, idx, new_name, new_path, disk) ==
    /\ idx \in Int
    /\ ItemOperation("edit_item",
                     edit_item_raw(raw_data, cat, typ, idx, new_name, new_path),
                     [new_name |-> new_name, new_path |-> new_path], disk)

\* delete_item(cat, typ, idx); the call record keeps the record of the add
\* when this call deletes the item the call before it added
delete_item(cat, typ, idx, disk) ==
    /\ idx \in Int
    /\ ItemOperation("delete_item", delete_item_raw(raw_data, cat, typ, idx),
                     IF /\ last.op = "add_item" /\ last.ret = "ok"
                        /\ last.arg.cat = Lower(cat) /\ last.arg.typ = Lower(typ)
                        /\ last.arg.idx = idx
                     THEN last.arg ELSE <<>>,
                     disk)

\* get_filtered_items(query): reads grouped_data, changes nothing
get_filtered_items(query) ==
    /\ last' = Call("get_filtered_items",
                    IF FilterRaises(grouped_data, query) THEN "raise" ELSE "ok", query)
    /\ UNCHANGED <<configs_list, current_config, json_file, raw_data, grouped_data,
                   launch_history, files, app_config_file, history_file, now,
                   sidebar_mode, editing_item>>

(***************************************************************************)
(* The core with one configuration: its catalogue and the item operations  *)
(***************************************************************************)
\* the state __init__ leaves: the directory read from app_config.json,
\* nothing selected, no launch recorded
Init ==
    /\ configs_list = <<[name |-> ConfigA, config_path |-> FileA]>>
    /\ app_config_file = configs_list
    /\ current_config = NoConfig
    /\ json_file = NoPath
    /\ raw_data = EmptyRaw
    /\ grouped_data = EmptyDict
    /\ launch_history = <<>>
    /\ history_file = <<>>
    /\ now = 0
    /\ sidebar_mode = <<>>
    /\ editing_item = Null
    /\ \/ files \in {(FileA :> d) : d \in DiskContents}
       \/ files = <<>>
    /\ last = Call("__init__", "ok", <<>>)

\* the disk of Spec takes every write
Next ==
    \/ \E name \in {ConfigA, ConfigZ} : select_config(name)
    \/ \E b \in Buckets, name \in Names, path \in Paths :
           add_item(b[1], b[2], name, path, "written")
    \/ \E b \in Buckets, idx \in Indices, new_name \in NewNames, new_path \in NewPaths :
           edit_item(b[1], b[2], idx, new_name, new_path, "written")
    \/ \E b \in Buckets, idx \in Indices : delete_item(b[1], b[2], idx, "written")
    \/ \E query \in Queries : get_filtered_items(query)

Spec == Init /\ [][Next]_vars


(***************************************************************************)
(* ToolLauncherLogic: launch history                                       *)
(***************************************************************************)
\* self.launch_history[-50:] keeps this many entries
HistoryCap == 50

\* the model stops launching after this many launches
MaxLaunches == 52

\* launch_history.json is absent
NoFile == [missing |-> TRUE]

\* buf[-n:]
LastN(buf, n) ==
    IF Len(buf) <= n THEN buf ELSE SubSeq(buf, Len(buf) - n + 1, Len(buf))

\* _load_history: [] for an absent or unreadable file, else its last 50 entries
_load_history(file) ==
    IF file = NoFile \/ file = Corrupt THEN <<>> ELSE LastN(file, HistoryCap)

\* _save_history: the write replaces the file; open() failing leaves the file
\* as it was, a failure during the dump leaves a truncated file; both are
\* caught and printed
_save_history(file, buf, disk) ==
    CASE disk = "written" -> buf
      [] disk = "unwritable" -> file
      [] disk = "truncated" -> Corrupt

\* an append that keeps the oldest 50 entries (not the code's)
KeepOldest(buf, entry) ==
    IF Len(buf) < HistoryCap THEN Append(buf, entry) ELSE SubSeq(buf, 1, HistoryCap)

\* _add_to_history: the buffer after the append and the truncation
_add_to_history(buf, entry) == LastN(Append(buf, entry), HistoryCap)

WebPage == <<"w", "e", "b", " ", "p", "a", "g", "e">>
Folder == <<"f", "o", "l", "d", "e", "r">>

\* the entry _add_to_history builds; the timestamp is the reading of the
\* clock, which the model counts in launches
HistoryEntry(time, name, path, typ) ==
    [timestamp |-> time, name |-> name, path |-> path, type |-> typ]

\* a launch that records the entry only when the opener did not raise (not
\* the code's)
launch_confirmed(typ, path, name) ==
    /\ now < MaxLaunches
    /\ \E disk \in {"written", "unwritable", "truncated"}, opened \in BOOLEAN :
           LET entry == HistoryEntry(now + 1, name, path, typ)
               buf == IF opened THEN _add_to_history(launch_history, entry)
                      ELSE launch_history
           IN  /\ now' = now + 1
               /\ launch_history' = buf
               /\ history_file' = IF opened THEN _save_history(history_file, buf, disk)
                                  ELSE history_file
               /\ last' = Call("launch_item", IF opened THEN "ok" ELSE "fail",
                               [given |-> Append(last.arg.given, entry),
                                disk |-> disk])
    /\ UNCHANGED <<configs_list, current_config, json_file, raw_data, grouped_data,
                   files, app_config_file, sidebar_mode, editing_item>>

\* launch_item(typ, path, name): records the launch, then dispatches; the
\* dispatch returns (True, "") or, when the opener raises, (False, message).
\* The call record keeps every entry the buffer was ever given.
launch_item(typ, path, name) ==
    /\ now < MaxLaunches
    /\ \E disk \in {"written", "unwritable", "truncated"}, opened \in BOOLEAN :
           LET entry == HistoryEntry(now + 1, name, path, typ)
               buf == _add_to_history(launch_history, entry)
           IN  /\ now' = now + 1
               /\ launch_history' = buf
               /\ history_file' = _save_history(history_file, buf, disk)
               /\ last' = Call("launch_item", IF opened THEN "ok" ELSE "fail",
                               [given |-> Append(last.arg.given, entry),
                                disk |-> disk])
    /\ UNCHANGED <<configs_list, current_config, json_file, raw_data, grouped_data,
                   files, app_config_file, sidebar_mode, editing_item>>

\* launch_history.json as __init__ may find it
HistoryFiles ==
    { NoFile, Corrupt, <<>>,
      <<HistoryEntry(-1, NameC, PathB, Folder), HistoryEntry(0, NameAb, PathP, WebPage)>> }

InitHistory ==
    /\ configs_list = <<[name |-> ConfigA, config_path |-> FileA]>>
    /\ app_config_file = configs_list
    /\ current_config = NoConfig
    /\ json_file = NoPath
    /\ raw_data = EmptyRaw
    /\ grouped_data = EmptyDict
    /\ files = <<>>
    /\ now = 0
    /\ sidebar_mode = <<>>
    /\ editing_item = Null
    /\ history_file \in HistoryFiles
    /\ launch_history = _load_history(history_file)
    /\ last = Call("__init__", "ok", [given |-> launch_history, disk |-> "unread"])

NextHistory == launch_item(WebPage, PathP, NameAb)

SpecHistory == InitHistory /\ [][NextHistory]_vars

\* the entries appended by the launches so far, in call order
Appended == LastN(last.arg.given, now)

\* C1: after N launches the buffer ends with the appended entries in call
\* order: for N > 50 it is exactly the 50 most recently appended entries, for
\* N <= 50 its last N entries are all the N appended ones (and nothing else
\* when the history started empty); a successful save leaves the same entries
\* in the history file.
C1_HistoryBound ==
    /\ Len(Appended) = now
    /\ \A k \in 1..now : Appended[k].timestamp = k
    /\ now > HistoryCap =>
           /\ Len(launch_history) = HistoryCap
           /\ launch_history = SubSeq(Appended, now - HistoryCap + 1, now)
    /\ now <= HistoryCap =>
           /\ LastN(launch_history, now) = Appended
           /\ Len(last.arg.given) = now => launch_history = Appended
    /\ (last.op = "launch_item" /\ last.arg.disk = "written") =>
           history_file = launch_history

\* C1's case: more than 50 launches were made, the oldest appended entry
\* has been evicted
C1_Witness ==
    /\ last.op = "launch_item"
    /\ now > HistoryCap
    /\ Len(launch_history) = HistoryCap
    /\ launch_history[1].timestamp = now - HistoryCap + 1


(***************************************************************************)
(* Properties of the catalogue operations (checked under Spec)             *)
(***************************************************************************)
\* every bucket of a category -> type -> value map, in iteration order
RECURSIVE TypeList(_, _)
TypeList(c, types) ==
    IF types = <<>> THEN <<>>
    ELSE <<[c |-> c, t |-> Head(types).k, v |-> Head(types).v]>>
         \o TypeList(c, Tail(types))

RECURSIVE BucketList(_)
BucketList(g) ==
    IF g = <<>> THEN <<>>
    ELSE TypeList(Head(g).k, Head(g).v) \o BucketList(Tail(g))

\* the items of a list, each paired with its position counted from 0
Enumerated(items) == [i \in 1..Len(items) |-> <<i - 1, items[i]>>]

IsNonEmpty(b) == b.v # <<>>

\* C2: get_filtered_items, for every query under which it returns: each
\* (index, item) pair listed under (category, type) is the item at that index
\* of the unfiltered bucket grouped_data[category][type], and the indices of
\* one bucket increase.
C2_IndexStability ==
    \A q \in Queries :
        ~FilterRaises(grouped_data, q) =>
            LET out == BucketList(get_filtered_items_of(grouped_data, q))
            IN  \A n \in DOMAIN out :
                    LET bucket == BucketOf(grouped_data, out[n].c, out[n].t)
                        pairs == out[n].v
                    IN  /\ HasBucket(grouped_data, out[n].c, out[n].t)
                        /\ \A m \in DOMAIN pairs :
                               /\ pairs[m][1] \in 0..(Len(bucket) - 1)
                               /\ bucket[pairs[m][1] + 1] = pairs[m][2]
                               /\ m > 1 => pairs[m - 1][1] < pairs[m][1]

\* C2's case: a search was made whose result lists, first in some bucket, an
\* item that is not the first of its bucket (an earlier item did not match)
C2_Witness ==
    /\ last.op = "get_filtered_items" /\ last.ret = "ok" /\ last.arg # <<>>
    /\ LET out == BucketList(get_filtered_items_of(grouped_data, last.arg))
       IN  \E n \in DOMAIN out : out[n].v[1][1] >= 1

\* C9 as stated: get_filtered_items("") lists every bucket of the grouped
\* view, in grouped order, each with all its items paired with 0..len-1.
C9_EveryBucket ==
    LET out == BucketList(get_filtered_items_of(grouped_data, <<>>))
        all == BucketList(grouped_data)
    IN  /\ Len(out) = Len(all)
        /\ \A n \in DOMAIN out :
               /\ out[n].c = all[n].c /\ out[n].t = all[n].t
               /\ out[n].v = Enumerated(all[n].v)

\* C9 amended: get_filtered_items("") lists every bucket of the grouped view
\* that holds at least one item, in grouped order, each with all its items
\* paired with 0..len-1; a bucket without items is not listed.
C9_EveryNonEmptyBucket ==
    LET out == BucketList(get_filtered_items_of(grouped_data, <<>>))
        all == SelectSeq(BucketList(grouped_data), IsNonEmpty)
    IN  /\ Len(out) = Len(all)
        /\ \A n \in DOMAIN out :
               /\ out[n].c = all[n].c /\ out[n].t = all[n].t
               /\ out[n].v = Enumerated(all[n].v)

\* C9's case: the empty query was asked of a view that has a bucket with
\* items and a bucket without
C9_Witness ==
    /\ last.op = "get_filtered_items" /\ last.ret = "ok" /\ last.arg = <<>>
    /\ \E n, m \in DOMAIN BucketList(grouped_data) :
           /\ BucketList(grouped_data)[n].v = <<>>
           /\ BucketList(grouped_data)[m].v # <<>>

\* C5: when a successful delete_item directly follows a successful add_item
\* and deletes at the index where the view showed the new item, the bucket
\* holds what it held before the add, in the same order, and a bucket or a
\* category that was not in the view before the add is not in it now.
C5_AddThenDelete ==
    (last.op = "delete_item" /\ last.ret = "ok" /\ last.arg # <<>>) =>
        /\ BucketOf(grouped_data, last.arg.cat, last.arg.typ) = last.arg.before
        /\ ~last.arg.had_bucket => ~HasBucket(grouped_data, last.arg.cat, last.arg.typ)
        /\ ~last.arg.had_cat => ~HasKey(grouped_data, last.arg.cat)

\* C5's case: an item was added to a bucket that held items, and deleted
C5_Witness ==
    /\ last.op = "delete_item" /\ last.ret = "ok" /\ last.arg # <<>>
    /\ last.arg.before # <<>>

\* every bucket of a nested catalogue but the one at (c, t), in file order
NotAt(c, t, bl) == SelectSeq(bl, LAMBDA b : ~(b.c = c /\ b.t = t))

\* C8: when delete_item removes the only entry of the list at (c, t), the
\* type key t leaves raw_data[c]; the category key c leaves raw_data exactly
\* when it had no other type; every other bucket keeps its place and its
\* content; and the file holds the raw structure when delete_item returns
\* True (the empty map {} when the catalogue had that one item only).
C8_EmptyBucketCleanup ==
    /\ \A b \in Buckets, idx \in Indices :
           LET c == Lower(b[1])
               t == Lower(b[2])
               d == delete_item_raw(raw_data, b[1], b[2], idx)
           IN  (d.ret = "ok" /\ Len(BucketOf(raw_data.cats, c, t).items) = 1) =>
                   /\ ~HasBucket(d.raw.cats, c, t)
                   /\ HasKey(d.raw.cats, c) <=> Len(Lookup(raw_data.cats, c)) > 1
                   /\ BucketList(d.raw.cats) = NotAt(c, t, BucketList(raw_data.cats))
    /\ (last.op = "delete_item" /\ last.ret = "ok" /\ json_file # NoPath) =>
           /\ raw_data.shape = "map"
           /\ files[json_file] = raw_data

\* C8's case: the only item of a catalogue was deleted and {} was saved
C8_Witness ==
    /\ last.op = "delete_item" /\ last.ret = "ok"
    /\ json_file # NoPath
    /\ raw_data = EmptyRaw
    /\ files[json_file] = EmptyRaw

\* C10 as stated: once a configuration is selected, whenever add_item,
\* edit_item or delete_item has returned, grouped_data is _normalize(raw_data)
\* and the catalogue file holds raw_data.
C10_ViewAndFileInSync ==
    (/\ json_file # NoPath
     /\ last.op \in {"add_item", "edit_item", "delete_item"}
     /\ last.ret \in {"ok", "fail"}) =>
        /\ ~_normalize_raises(raw_data)
        /\ grouped_data = _normalize(raw_data)
        /\ files[json_file] = raw_data


(***************************************************************************)
(* ToolLauncherLogic: configuration management                             *)
(***************************************************************************)
Whitespace == {" ", "\t", "\n"}

\* s.strip()
RECURSIVE LStrip(_)
LStrip(s) ==
    IF s # <<>> /\ Head(s) \in Whitespace THEN LStrip(Tail(s)) ELSE s

RECURSIVE RStrip(_)
RStrip(s) ==
    IF s # <<>> /\ s[Len(s)] \in Whitespace THEN RStrip(SubSeq(s, 1, Len(s) - 1))
    ELSE s

Strip(s) == RStrip(LStrip(s))

\* s.replace(from, to) for one-character from and to
ReplaceChar(s, from, to) ==
    [i \in 1..Len(s) |-> IF s[i] = from THEN to ELSE s[i]]

\* s.endswith(suffix)
EndsWith(s, suffix) ==
    /\ Len(suffix) <= Len(s)
    /\ SubSeq(s, Len(s) - Len(suffix) + 1, Len(s)) = suffix

\* os.path.join(a, b) with "/" as the separator
PathJoin(a, b) ==
    IF b # <<>> /\ Head(b) = "/" THEN b
    ELSE IF a = <<>> \/ a[Len(a)] = "/" THEN a \o b
    ELSE a \o <<"/">> \o b

\* self.data_dir
data_dir == <<"/", "d">>

DotJson == <<".", "j", "s", "o", "n">>
ConfigPrefix == <<"c", "o", "n", "f", "i", "g", "_">>

\* full.replace("\\", "/"), then the forced .json suffix
NormalizePath(full) ==
    LET f == ReplaceChar(full, "\\", "/")
    IN  IF EndsWith(f, DotJson) THEN f ELSE f \o DotJson

\* add_config: the path of the new catalogue file
add_config_path(name, path, filename) ==
    NormalizePath(
        IF filename # <<>>
        THEN PathJoin(IF path # <<>> THEN path ELSE data_dir, filename)
        ELSE PathJoin(data_dir,
                      ConfigPrefix \o ReplaceChar(Lower(name), " ", "_") \o DotJson))

\* edit_config: the path the current configuration is moved to
edit_config_path(new_path, new_filename) ==
    NormalizePath(PathJoin(IF new_path # <<>> THEN new_path ELSE data_dir,
                           new_filename))

\* _save_app_config: data["configs"] = self.configs_list, written to
\* app_config.json
_save_app_config(list) == list

\* a duplicate check that compares the name with the paths (not the code's)
IsDuplicatePath(list, name) == \E i \in DOMAIN list : list[i].config_path = name

\* add_config: any(c["name"] == name for c in self.configs_list)
IsDuplicate(list, name) == \E i \in DOMAIN list : list[i].name = name

\* add_config is not called with a new name once the directory holds this
\* many entries
MaxConfigs == 2

\* add_config(name, path, filename); disk tells whether the new file could
\* be created
add_config(name, path, filename) ==
    /\ Len(configs_list) < MaxConfigs \/ IsDuplicate(configs_list, name)
    /\ \E disk \in {"written", "unwritable"} :
           LET full == add_config_path(name, path, filename)
               ok == /\ Strip(name) # <<>>
                     /\ ~IsDuplicate(configs_list, name)
                     /\ disk = "written"
               arg == [before |-> Len(configs_list),
                       duplicate |-> \E i \in DOMAIN configs_list :
                                        configs_list[i].name = name,
                       list |-> IF ok THEN <<>> ELSE configs_list,
                       given |-> IF ok THEN [path |-> path, filename |-> filename]
                                 ELSE <<>>]
           IN  /\ configs_list' =
                      IF ok THEN Append(configs_list,
                                        [name |-> name, config_path |-> full])
                      ELSE configs_list
               /\ files' = IF ok THEN (full :> EmptyRaw) @@ files ELSE files
               /\ app_config_file' =
                      IF ok THEN _save_app_config(configs_list')
                      ELSE app_config_file
               /\ last' = Call("add_config", IF ok THEN "ok" ELSE "fail", arg)
    /\ UNCHANGED <<current_config, json_file, raw_data, grouped_data,
                   launch_history, history_file, now,
                   sidebar_mode, editing_item>>

\* the directory with the path of the first entry named name replaced
WithPath(list, name, full) ==
    IF NameExists(list, name)
    THEN [i \in DOMAIN list |->
             IF list[i].name = name /\ \A j \in 1..(i - 1) : list[j].name # name
             THEN [list[i] EXCEPT !.config_path = full] ELSE list[i]]
    ELSE list

\* a removal that leaves the file where it is (not the code's)
KeepFile(fs, path) == fs

\* os.remove(path)
RemoveFile(fs, path) == [q \in DOMAIN fs \ {path} |-> fs[q]]

\* edit_config(new_path, new_filename): moves the file of the current
\* configuration.  disk tells where the move stops: nowhere ("moved"), at the
\* write of the new file ("unwritable") or at the removal of the old one
\* ("unremovable"); an unparsable old file stops it at the read.
edit_config(new_path, new_filename) ==
    /\ \E disk \in {"moved", "unwritable", "unremovable"} :
           LET full_path == edit_config_path(new_path, new_filename)
               old_path == current_config.config_path
               exists == old_path \in DOMAIN files
               data == IF exists THEN files[old_path] ELSE EmptyRaw
               written == (full_path :> data) @@ files
           IN  IF current_config = NoConfig \/ Strip(new_filename) = <<>>
               THEN /\ last' = Call("edit_config", "fail", <<>>)
                    /\ UNCHANGED <<configs_list, current_config, json_file, files,
                                   app_config_file>>
               ELSE IF old_path = full_path
               THEN /\ last' = Call("edit_config", "ok", [full_path |-> full_path])
                    /\ UNCHANGED <<configs_list, current_config, json_file, files,
                                   app_config_file>>
               ELSE IF data = Corrupt \/ disk = "unwritable"
               THEN /\ last' = Call("edit_config", "fail", <<>>)
                    /\ UNCHANGED <<configs_list, current_config, json_file, files,
                                   app_config_file>>
               ELSE IF exists /\ disk = "unremovable"
               THEN /\ files' = written
                    /\ last' = Call("edit_config", "fail", <<>>)
                    /\ UNCHANGED <<configs_list, current_config, json_file,
                                   app_config_file>>
               ELSE /\ files' = RemoveFile(written, old_path)
                    /\ current_config' = [current_config EXCEPT !.config_path = full_path]
                    /\ json_file' = full_path
                    /\ configs_list' = WithPath(configs_list, current_config.name, full_path)
                    /\ app_config_file' = _save_app_config(configs_list')
                    /\ last' = Call("edit_config", "ok", [full_path |-> full_path])
    /\ UNCHANGED <<raw_data, grouped_data, launch_history, history_file, now,
                   sidebar_mode, editing_item>>

\* a deletion that drops the first entry whatever its name (not the code's)
WithoutFirst(list, name) == IF list = <<>> THEN list ELSE Tail(list)

\* [c for c in self.configs_list if c["name"] != name]
Without(list, name) == SelectSeq(list, LAMBDA c : c.name # name)

\* delete_config(name): no condition, always True
delete_config(name) ==
    /\ configs_list' = Without(configs_list, name)
    /\ app_config_file' = _save_app_config(configs_list')
    /\ last' = Call("delete_config", "ok",
                    [before |-> Len(configs_list), name |-> name])
    /\ UNCHANGED <<current_config, json_file, raw_data, grouped_data,
                   launch_history, files, history_file, now,
                   sidebar_mode, editing_item>>

(***************************************************************************)
(* ToolLauncherGUI: the handler of the "delete configuration" button       *)
(***************************************************************************)
\* get_config_names(): the names the combo box offers
get_config_names == {configs_list[i].name : i \in DOMAIN configs_list}

\* on_delete_config, with the name the combo box shows and the answer to the
\* confirmation dialog; after the deletion the first configuration left is
\* selected (on_config_change)
on_delete_config(current_name, confirmed) ==
    IF Len(configs_list) <= 1 \/ ~confirmed
    THEN /\ last' = Call("on_delete_config", "fail",
                         [before |-> Len(configs_list)])
         /\ UNCHANGED <<configs_list, current_config, json_file, raw_data,
                        grouped_data, launch_history, files, app_config_file,
                        history_file, now,
                   sidebar_mode, editing_item>>
    ELSE LET left == Without(configs_list, current_name)
             sel == Selected(left, left[1].name)
         IN  /\ configs_list' = left
             /\ app_config_file' = _save_app_config(left)
             /\ current_config' = IF left = <<>> THEN current_config
                                  ELSE sel.current_config
             /\ json_file' = IF left = <<>> THEN json_file ELSE sel.json_file
             /\ files' = IF left = <<>> THEN files ELSE sel.files
             /\ raw_data' = IF left = <<>> THEN raw_data ELSE sel.raw_data
             /\ grouped_data' = IF left = <<>> THEN grouped_data
                                ELSE sel.grouped_data
             /\ last' = Call("on_delete_config",
                             IF left = <<>> THEN "ok" ELSE sel.ret,
                             [before |-> Len(configs_list)])
             /\ UNCHANGED <<launch_history, history_file, now,
                   sidebar_mode, editing_item>>

(***************************************************************************)
(* The core and the directory of configurations                            *)
(***************************************************************************)
Configa == <<"a">>
ConfigaB == <<"a", " ", "B">>
Blank == <<" ">>
FileX == <<"e", "\\", "x">>
FileAJson == <<"a", ".", "j", "s", "o", "n">>

ConfigNames == {ConfigA, Configa, ConfigaB}
NewConfigNames == ConfigNames \cup {Blank}
Directories == {<<>>}
Filenames == {<<>>}
NewFilenames == {<<>>, FileX, FileAJson}

InitConfigs ==
    /\ configs_list = <<[name |-> ConfigA, config_path |-> FileA]>>
    /\ app_config_file = configs_list
    /\ current_config = NoConfig
    /\ json_file = NoPath
    /\ raw_data = EmptyRaw
    /\ grouped_data = EmptyDict
    /\ launch_history = <<>>
    /\ history_file = <<>>
    /\ now = 0
    /\ sidebar_mode = <<>>
    /\ editing_item = Null
    /\ \/ files \in {(FileA :> d) :
                        d \in {NestedRaw(<<Entry(dev, <<Entry(dir, ListBucket(<<Item1>>))>>)>>),
                               Corrupt}}
       \/ files = <<>>
    /\ last = Call("__init__", "ok", <<>>)

NextConfigs ==
    \/ \E name \in ConfigNames : select_config(name)
    \/ \E name \in NewConfigNames, path \in Directories, filename \in Filenames :
           add_config(name, path, filename)
    \/ \E new_path \in Directories, new_filename \in NewFilenames :
           edit_config(new_path, new_filename)
    \/ \E name \in ConfigNames : delete_config(name)
    \/ \E name \in get_config_names, confirmed \in BOOLEAN :
           on_delete_config(name, confirmed)

SpecConfigs == InitConfigs /\ [][NextConfigs]_vars

\* the names of a directory are pairwise distinct
UniqueNames(list) ==
    \A i, j \in DOMAIN list : i # j => list[i].name # list[j].name

\* C3: add_config with a name that an entry already has, exactly, returns
\* (False, message) and leaves configs_list as it was; the names of
\* configs_list stay pairwise distinct under add_config, edit_config and
\* delete_config.
C3_UniqueConfigNames ==
    /\ UniqueNames(configs_list)
    /\ (last.op = "add_config" /\ last.arg.duplicate) =>
           /\ last.ret = "fail"
           /\ configs_list = last.arg.list
           /\ Len(configs_list) = last.arg.before
           /\ app_config_file = configs_list

\* C3's case: add_config was called with the name of one of two entries
C3_Witness ==
    /\ last.op = "add_config" /\ last.ret = "fail" /\ last.arg.duplicate
    /\ Len(configs_list) = 2

\* C4 as stated: delete_config called on a directory of exactly one entry
\* returns False and leaves the directory unchanged, so the directory never
\* has fewer than one entry.
C4_MinimumConfigGuard ==
    /\ Len(configs_list) >= 1
    /\ (last.op = "delete_config" /\ last.arg.before = 1) =>
           /\ last.ret = "fail"
           /\ Len(configs_list) = 1

(***************************************************************************)
(* ToolLauncher (ToolLauncer.py): the catalogue in the one-file program    *)
(***************************************************************************)
\* the default category of normalize_grouped and to_nested, before .lower()
UncategorizedDefault ==
    <<"U", "n", "c", "a", "t", "e", "g", "o", "r", "i", "z", "e", "d">>

\* grouped[category][item_type] exists afterwards, with what it held
GroupEnsure(g, c, t) ==
    LET types == IF HasKey(g, c) THEN Lookup(g, c) ELSE EmptyDict
        items == IF HasKey(types, t) THEN Lookup(types, t) ELSE <<>>
    IN  Store(g, c, Store(types, t, items))

\* the shared loop of normalize_grouped (list branch) and to_nested:
\* [item for item in data if item], grouped by lower-cased category and type
RECURSIVE GroupRecords(_, _)
GroupRecords(recs, g) ==
    IF recs = <<>> THEN g
    ELSE LET item == Head(recs)
             c == Lower(GetField(item, "category", UncategorizedDefault))
             t == Lower(GetField(item, "type", <<>>))
         IN  GroupRecords(Tail(recs),
                          IF Truthy(item) THEN GroupAppend(g, c, t, item) ELSE g)

\* grouped[category][item_type].extend(filtered_items)
RECURSIVE GroupExtend(_, _, _, _)
GroupExtend(g, c, t, items) ==
    IF items = <<>> THEN g
    ELSE GroupExtend(IF Truthy(Head(items)) THEN GroupAppend(g, c, t, Head(items))
                     ELSE g,
                     c, t, Tail(items))

\* normalize_grouped, dict branch, inner loop over the types of one category
RECURSIVE GroupTypes(_, _, _)
GroupTypes(types, c, g) ==
    IF types = <<>> THEN g
    ELSE LET t == Lower(Head(types).k)
         IN  GroupTypes(Tail(types), c,
                        GroupExtend(GroupEnsure(g, c, t), c, t, Head(types).v.items))

\* normalize_grouped, dict branch, outer loop
RECURSIVE GroupCats(_, _)
GroupCats(cats, g) ==
    IF cats = <<>> THEN g
    ELSE LET c == Lower(Head(cats).k)
             gc == IF HasKey(g, c) THEN g ELSE Store(g, c, EmptyDict)
         IN  GroupCats(Tail(cats), GroupTypes(Head(cats).v, c, gc))

\* normalize_grouped(data)
normalize_grouped(data) ==
    IF data.shape = "list" THEN GroupRecords(data.recs, EmptyDict)
    ELSE GroupCats(data.cats, EmptyDict)

\* to_nested(data_list) raises AttributeError when it is given a mapping: the
\* comprehension then walks the keys, and a text has no .get
to_nested_raises(data) ==
    data.shape = "map" /\ \E i \in DOMAIN data.cats : data.cats[i].k # <<>>

\* a re-nesting that stores the records without their category and type
\* fields (not the code's)
to_nested_stripped(data) ==
    LET g == GroupRecords(data.recs, EmptyDict)
        Bare(item) == [k \in DOMAIN item \ {"category", "type"} |-> item[k]]
    IN  [i \in DOMAIN g |->
            Entry(g[i].k,
                  [j \in DOMAIN g[i].v |->
                      Entry(g[i].v[j].k,
                            [n \in DOMAIN g[i].v[j].v |-> Bare(g[i].v[j].v[n])])])]

\* to_nested(data_list), when it returns
to_nested(data) == GroupRecords(data.recs, EmptyDict)

\* a grouped structure written as JSON and read back: a nested catalogue
\* whose buckets are lists
RECURSIVE AsTypes(_)
AsTypes(types) ==
    IF types = <<>> THEN <<>>
    ELSE <<Entry(Head(types).k, ListBucket(Head(types).v))>> \o AsTypes(Tail(types))

RECURSIVE AsCats(_)
AsCats(g) ==
    IF g = <<>> THEN <<>>
    ELSE <<Entry(Head(g).k, AsTypes(Head(g).v))>> \o AsCats(Tail(g))

AsNested(g) == NestedRaw(AsCats(g))

\* load_json: what it returns ({} without a file, for a missing file and for
\* an unparsable one)
load_json(fs, path) ==
    IF path # NoPath /\ path \in DOMAIN fs /\ fs[path] # Corrupt THEN fs[path]
    ELSE EmptyRaw

\* load_json: the disk afterwards (a missing file is created holding {}, an
\* unparsable one is left alone)
load_json_files(fs, path) ==
    IF path = NoPath \/ path \in DOMAIN fs THEN fs
    ELSE (path :> EmptyRaw) @@ fs

\* save_json(data): the disk afterwards
save_json(fs, path, data) ==
    IF path = NoPath THEN fs ELSE (path :> data) @@ fs

\* `not self.raw_data`: {} and [] are false
IsEmptyRaw(raw) == raw.recs = <<>> /\ raw.cats = <<>>

\* submit_add, dict branch: the containers are created, the item is appended
\* to a list, a single object becomes a list of it and the item
submit_add_nested(raw, cat, typ, new_item) ==
    LET c == Lower(cat)
        t == Lower(typ)
        types == IF HasKey(raw.cats, c) THEN Lookup(raw.cats, c) ELSE EmptyDict
        existing == IF HasKey(types, t) THEN Lookup(types, t) ELSE ListBucket(<<>>)
        items == IF existing.kind = "list" THEN Append(existing.items, new_item)
                 ELSE IF Truthy(existing.items[1]) THEN <<existing.items[1], new_item>>
                 ELSE <<new_item>>
    IN  NestedRaw(Store(raw.cats, c, Store(types, t, ListBucket(items))))

\* an add that saves a flat list as the flat list it is (not the code's)
submit_add_flat(raw, cat, typ, name, path) ==
    IF raw.shape = "list"
    THEN FlatRaw(Append(raw.recs,
             [category |-> cat, type |-> typ, name |-> name, path |-> path]))
    ELSE submit_add_nested(raw, cat, typ, [name |-> name, path |-> path])

\* submit_add, up to save_json: what is saved
submit_add_saved(raw, cat, typ, name, path) ==
    IF raw.shape = "list"
    THEN AsNested(to_nested(FlatRaw(Append(raw.recs,
             [category |-> cat, type |-> typ, name |-> name, path |-> path]))))
    ELSE submit_add_nested(raw, cat, typ, [name |-> name, path |-> path])

\* refresh_data on the disk fs: raw_data and grouped_data are read again
refresh_data(fs, path) ==
    /\ raw_data' = load_json(fs, path)
    /\ grouped_data' = normalize_grouped(load_json(fs, path))
    /\ files' = load_json_files(fs, path)

\* `if not self.raw_data: self.raw_data = self.load_json()`
EnsureLoaded == IF IsEmptyRaw(raw_data) THEN load_json(files, json_file) ELSE raw_data

EnsureLoadedFiles ==
    IF IsEmptyRaw(raw_data) THEN load_json_files(files, json_file) ELSE files

\* the end of submit_add, submit_edit and delete_item: save_json(nested), then
\* refresh_data.  disk tells whether open(..., 'w') succeeds; save_json
\* catches the failure and prints it.  The call record keeps the shape the
\* catalogue had, what was handed to save_json, and the (category, type,
\* index) the handler was given (none for submit_add).
SaveAndRefresh(op, raw, nested, disk, at) ==
    /\ refresh_data(IF disk = "written"
                    THEN save_json(EnsureLoadedFiles, json_file, nested)
                    ELSE EnsureLoadedFiles,
                    json_file)
    /\ last' = Call(op, "ok",
                    [flat |-> raw.shape = "list", saved |-> nested, disk |-> disk,
                     at |-> at])

\* a handler that returned early, or that an exception left before save_json
NotSaved(op, ret) ==
    /\ last' = Call(op, ret, <<>>)
    /\ raw_data' = IF ret = "raise" THEN EnsureLoaded ELSE raw_data
    /\ files' = IF ret = "raise" THEN EnsureLoadedFiles ELSE files
    /\ UNCHANGED grouped_data

\* submit_add with the four fields of the form
submit_add(cat_entry, type_combo, name_entry, path_entry) ==
    LET cat == Strip(cat_entry)
        typ == Strip(type_combo)
        name == Strip(name_entry)
        path == Strip(path_entry)
        raw == EnsureLoaded
    IN  /\ ItemCount(raw_data) < MaxItems
        /\ IF cat = <<>> \/ typ = <<>> \/ name = <<>> \/ path = <<>>
           THEN NotSaved("submit_add", "fail")
           ELSE \E disk \in {"written", "unwritable"} :
                    SaveAndRefresh("submit_add", raw,
                                   submit_add_saved(raw, cat, typ, name, path), disk,
                                   <<>>)
        /\ UNCHANGED <<configs_list, current_config, json_file, launch_history,
                       app_config_file, history_file, now,
                   sidebar_mode, editing_item>>

\* delete_item, flat branch: the loop walks the list from its end and counts
\* the records of the category and type; None.get raises AttributeError
RECURSIVE DeleteFlat(_, _, _, _, _, _)
DeleteFlat(recs, i, c, t, count, idx) ==
    IF i = 0 THEN Outcome("ok", recs)
    ELSE IF recs[i] = Null THEN Outcome("raise", recs)
    ELSE IF /\ Lower(GetField(recs[i], "category", <<>>)) = c
            /\ Lower(GetField(recs[i], "type", <<>>)) = t
    THEN IF count = idx THEN Outcome("ok", RemoveAt(recs, i - 1))
         ELSE DeleteFlat(recs, i - 1, c, t, count + 1, idx)
    ELSE DeleteFlat(recs, i - 1, c, t, count, idx)

\* delete_item, dict branch: an entry of a list is deleted when the index is
\* in range, a single object is deleted whatever the index; emptied
\* containers lose their keys
DeleteNested(raw, c, t, idx) ==
    LET bucket == Lookup(Lookup(raw.cats, c), t)
    IN  IF ~Addressed(raw, c, t) THEN raw
        ELSE IF bucket.kind = "obj" THEN NestedRaw(CleanUp(raw.cats, c, t, <<>>))
        ELSE IF 0 <= idx /\ idx < Len(bucket.items)
        THEN NestedRaw(CleanUp(raw.cats, c, t, RemoveAt(bucket.items, idx)))
        ELSE raw

\* ToolLauncher.delete_item(category, item_type, item_index)
ToolLauncher_delete_item(category, item_type, item_index) ==
    LET raw == EnsureLoaded
        c == Lower(category)
        t == Lower(item_type)
        flat == DeleteFlat(raw.recs, Len(raw.recs), c, t, 0, item_index)
    IN  /\ IF json_file = NoPath
           THEN NotSaved("ToolLauncher.delete_item", "fail")
           ELSE IF raw.shape = "list" /\ flat.ret = "raise"
           THEN NotSaved("ToolLauncher.delete_item", "raise")
           ELSE \E disk \in {"written", "unwritable"} :
                    SaveAndRefresh("ToolLauncher.delete_item", raw,
                        IF raw.shape = "list"
                        THEN AsNested(to_nested(FlatRaw(flat.raw)))
                        ELSE DeleteNested(raw, c, t, item_index),
                        disk, <<c, t, item_index>>)
        /\ UNCHANGED <<configs_list, current_config, json_file, launch_history,
                       app_config_file, history_file, now,
                   sidebar_mode, editing_item>>

\* submit_edit, flat branch: the first record with the category, type, name
\* and path of the item being edited gets the new name and path; None.get
\* raises AttributeError
RECURSIVE EditFlat(_, _, _, _, _, _, _)
EditFlat(recs, i, c, t, edited, name, path) ==
    IF i > Len(recs) THEN Outcome("ok", recs)
    ELSE IF recs[i] = Null THEN Outcome("raise", recs)
    ELSE IF /\ Lower(GetField(recs[i], "category", <<>>)) = c
            /\ Lower(GetField(recs[i], "type", <<>>)) = t
            /\ GetField(recs[i], "name", Null) = GetField(edited, "name", Null)
            /\ GetField(recs[i], "path", Null) = GetField(edited, "path", Null)
    THEN Outcome("ok", [recs EXCEPT ![i] =
                           SetField(SetField(recs[i], "name", name), "path", path)])
    ELSE EditFlat(recs, i + 1, c, t, edited, name, path)

\* submit_edit, dict branch: raw_data[cat_lower][typ_lower] raises KeyError
\* when a key is not there, items_list[edit_index] IndexError past the end,
\* and a null entry cannot be assigned to (TypeError)
EditNested(raw, c, t, edit_index, name, path) ==
    LET types == Lookup(raw.cats, c)
        bucket == Lookup(types, t)
        at == IF bucket.kind = "obj" THEN 1 ELSE edit_index + 1
        Changed(it) == SetField(SetField(it, "name", name), "path", path)
    IN  IF ~Addressed(raw, c, t) THEN Outcome("raise", raw)
        ELSE IF at > Len(bucket.items) \/ bucket.items[at] = Null
        THEN Outcome("raise", raw)
        ELSE Outcome("ok",
                 NestedRaw(Store(raw.cats, c,
                     Store(types, t,
                         [bucket EXCEPT !.items[at] = Changed(bucket.items[at])]))))

\* submit_edit with the two fields of the form; edit_category, edit_type,
\* edit_index and edited (self.edit_item) are what show_sidebar_for_edit kept
\* of the item the user chose in the view
submit_edit(edit_category, edit_type, edit_index, edited, name_entry, path_entry) ==
    LET name == Strip(name_entry)
        path == Strip(path_entry)
        raw == EnsureLoaded
        c == Lower(edit_category)
        t == Lower(edit_type)
        r == IF raw.shape = "list"
             THEN EditFlat(raw.recs, 1, c, t, edited, name, path)
             ELSE EditNested(raw, c, t, edit_index, name, path)
    IN  /\ IF name = <<>> \/ path = <<>>
           THEN NotSaved("submit_edit", "fail")
           ELSE IF r.ret = "raise"
           THEN NotSaved("submit_edit", "raise")
           ELSE \E disk \in {"written", "unwritable"} :
                    SaveAndRefresh("submit_edit", raw,
                        IF raw.shape = "list" THEN AsNested(to_nested(FlatRaw(r.raw)))
                        ELSE r.raw,
                        disk, <<c, t, edit_index>>)
        /\ UNCHANGED <<configs_list, current_config, json_file, launch_history,
                       app_config_file, history_file, now,
                   sidebar_mode, editing_item>>

\* on_config_select(selection)
on_config_select(selection) ==
    IF NameExists(configs_list, selection)
    THEN LET config == FirstNamed(configs_list, selection)
         IN  /\ current_config' = config
             /\ json_file' = config.config_path
             /\ refresh_data(files, config.config_path)
             /\ last' = Call("on_config_select", "ok", <<>>)
             /\ UNCHANGED <<configs_list, launch_history, app_config_file,
                            history_file, now,
                   sidebar_mode, editing_item>>
    ELSE /\ last' = Call("on_config_select", "fail", <<>>)
         /\ UNCHANGED <<configs_list, current_config, json_file, raw_data,
                        grouped_data, launch_history, files, app_config_file,
                        history_file, now,
                   sidebar_mode, editing_item>>

\* the items the view shows, each with its category, type and index
Shown ==
    LET bl == BucketList(grouped_data)
    IN  UNION {{[c |-> bl[n].c, t |-> bl[n].t, idx |-> i - 1, item |-> bl[n].v[i]] :
                   i \in DOMAIN bl[n].v} : n \in DOMAIN bl}

NextLegacy ==
    \/ \E selection \in {ConfigA, ConfigZ} : on_config_select(selection)
    \/ \E b \in Buckets, name \in FormNames, path \in FormPaths :
           submit_add(b[1], b[2], name, path)
    \/ \E s \in Shown : ToolLauncher_delete_item(s.c, s.t, s.idx)
    \/ \E s \in Shown, name \in FormNames, path \in FormPaths :
           submit_edit(s.c, s.t, s.idx, s.item, name, path)

\* the one-file program starts like the core, on a catalogue file that may
\* also hold the same record twice
LegacyContents == DiskContents \cup {FlatRaw(<<Rec1, Rec1>>)}

InitLegacy ==
    /\ configs_list = <<[name |-> ConfigA, config_path |-> FileA]>>
    /\ app_config_file = configs_list
    /\ current_config = NoConfig
    /\ json_file = NoPath
    /\ raw_data = EmptyRaw
    /\ grouped_data = EmptyDict
    /\ launch_history = <<>>
    /\ history_file = <<>>
    /\ now = 0
    /\ sidebar_mode = <<>>
    /\ editing_item = Null
    /\ \/ files \in {(FileA :> d) : d \in LegacyContents}
       \/ files = <<>>
    /\ last = Call("__init__", "ok", <<>>)

SpecLegacy == InitLegacy /\ [][NextLegacy]_vars

(***************************************************************************)
(* Properties of normalization and of the flat shape                       *)
(***************************************************************************)
\* every catalogue at hand: the one in memory and the parsable ones on disk
CataloguesAtHand ==
    {raw_data} \cup {files[p] : p \in {q \in DOMAIN files : files[q] # Corrupt}}

\* C6 as stated: for a nested catalogue, to_nested applied to the grouped
\* view and normalized again gives the grouped view.
C6_RoundTripThroughToNested ==
    \A raw \in CataloguesAtHand :
        raw.shape = "map" =>
            LET g == normalize_grouped(raw)
            IN  /\ ~to_nested_raises(AsNested(g))
                /\ normalize_grouped(AsNested(to_nested(AsNested(g)))) = g

\* C6 amended: normalization is idempotent, and re-nesting a flat list keeps
\* its grouping.  For a nested catalogue, normalize_grouped (and likewise
\* _normalize) of the grouped view read as a nested catalogue is that grouped
\* view again: same category and type keys, same items, same order.  For a
\* flat list, to_nested returns and normalize_grouped of its result equals
\* normalize_grouped of the list.  to_nested is never given a grouped view.
C6_NormalizeIdempotent ==
    \A raw \in CataloguesAtHand :
        /\ raw.shape = "map" =>
               /\ normalize_grouped(AsNested(normalize_grouped(raw)))
                      = normalize_grouped(raw)
               /\ _normalize(AsNested(_normalize(raw))) = _normalize(raw)
        /\ raw.shape = "list" =>
               /\ ~to_nested_raises(raw)
               /\ normalize_grouped(AsNested(to_nested(raw))) = normalize_grouped(raw)
               /\ BucketList(to_nested(raw)) = BucketList(normalize_grouped(raw))

\* C6's case: a nested catalogue was loaded that normalization changes (a key
\* that is not lower-case, a single object, an empty or null entry)
C6_Witness ==
    /\ last.op = "on_config_select" /\ last.ret = "ok"
    /\ raw_data.shape = "map"
    /\ AsNested(normalize_grouped(raw_data)) # raw_data
    /\ normalize_grouped(raw_data) # EmptyDict

\* C7 as stated: with a flat list of records loaded, add_item returns True and
\* leaves a nested mapping in which each (category, type) bucket holds the
\* original records of that category and type, whole and in their order, and
\* the bucket of the new item ends with the two-field object {name, path};
\* that mapping is what is saved.
C7_FlatSourceAdd ==
    (json_file # NoPath /\ raw_data.shape = "list" /\ ~_normalize_raises(raw_data)) =>
        \A b \in Buckets, name \in Names, path \in Paths :
            LET r == add_item_raw(raw_data, b[1], b[2], name, path)
                c == Lower(b[1])
                t == Lower(b[2])
                InBucket(c2, t2) ==
                    SelectSeq(raw_data.recs,
                              LAMBDA rec :
                                  /\ Lower(GetField(rec, "category", Uncategorized)) = c2
                                  /\ Lower(GetField(rec, "type", <<>>)) = t2)
                saved == BucketList(r.raw.cats)
            IN  /\ r.ret = "ok"
                /\ r.raw.shape = "map"
                /\ HasBucket(r.raw.cats, c, t)
                /\ \A n \in DOMAIN saved :
                       saved[n].v.items =
                           InBucket(saved[n].c, saved[n].t)
                           \o (IF saved[n].c = c /\ saved[n].t = t
                               THEN <<[name |-> name, path |-> path]>> ELSE <<>>)

(***************************************************************************)
(* Properties of the one-file program's handlers (checked under SpecLegacy)*)
(***************************************************************************)
\* C11: in every step, a catalogue file that holds a nested mapping holds a
\* nested mapping afterwards (it is never rewritten as a flat list); and when
\* submit_add, submit_edit or delete_item has saved, whatever shape was loaded
\* (flat list or nested mapping), what it handed to save_json is a nested
\* mapping, the file holds it, and raw_data read back from it is nested.
C11_ShapePreservation ==
    [][/\ \A p \in DOMAIN files :
              files[p].shape = "map" =>
                  p \in DOMAIN files' /\ files'[p].shape = "map"
       /\ (/\ last'.op \in {"submit_add", "submit_edit", "ToolLauncher.delete_item"}
           /\ last'.ret = "ok"
           /\ json_file' # NoPath
           /\ last'.arg.disk = "written") =>
              /\ last'.arg.saved.shape = "map"
              /\ files'[json_file'] = last'.arg.saved
              /\ raw_data'.shape = "map"]_vars

\* C11's case: a record of a flat catalogue was deleted, and the file, a flat
\* list before, now holds the nested mapping of the records left
C11_Witness ==
    /\ last.op = "ToolLauncher.delete_item" /\ last.ret = "ok"
    /\ last.arg.flat /\ last.arg.disk = "written"
    /\ files[json_file].shape = "map"
    /\ files[json_file] # EmptyRaw

(***************************************************************************)
(* Properties of the core's load and of its error handling (checked under  *)
(* Spec)                                                                   *)
(***************************************************************************)
\* C12 as stated: when select_config loads a catalogue file that is missing,
\* the file is created holding {} and raw_data is {}; when it loads a file
\* that does not parse, raw_data is {} and the file keeps its content.
C12_CatalogueLoad ==
    [][(last'.op = "select_config" /\ last'.ret = "ok") =>
           /\ json_file' \notin DOMAIN files =>
                  /\ json_file' \in DOMAIN files'
                  /\ files'[json_file'] = EmptyRaw
                  /\ raw_data' = EmptyRaw
           /\ (json_file' \in DOMAIN files /\ files[json_file'] = Corrupt) =>
                  /\ raw_data' = EmptyRaw
                  /\ files'[json_file'] = Corrupt]_vars

\* a catalogue in one of the two recognised shapes: a flat list of item
\* objects, or a nested map whose buckets are one item object or a list of
\* item objects
Recognised(raw) ==
    /\ raw.shape \in {"list", "map"}
    /\ \A i \in DOMAIN raw.recs : raw.recs[i] # Null
    /\ \A n \in DOMAIN BucketList(raw.cats) :
           \A i \in DOMAIN BucketList(raw.cats)[n].v.items :
               BucketList(raw.cats)[n].v.items[i] # Null

\* C13 as stated: with a catalogue of a recognised shape in memory, no call
\* of a public operation ends by raising; each returns its result indicator.
C13_NoRaise == Recognised(raw_data) => last.ret # "raise"

(***************************************************************************)
(* The core given blank form fields, on a disk that may refuse a write     *)
(***************************************************************************)
Disks == {"written", "unwritable"}
FormCategories == {dev, Blank}
FormItemNames == {NameC, Blank, <<>>}
FormNewNames == {NameC, <<>>}
FormIndices == {0, 1}

NextFaults ==
    \/ select_config(ConfigA)
    \/ \E cat \in FormCategories, name \in FormItemNames, disk \in Disks :
           add_item(cat, dir, name, PathP, disk)
    \/ \E idx \in FormIndices, new_name \in FormNewNames, disk \in Disks :
           edit_item(dev, dir, idx, new_name, PathB, disk)
    \/ \E idx \in FormIndices, disk \in Disks : delete_item(dev, dir, idx, disk)

SpecFaults == Init /\ [][NextFaults]_vars

\* C14 as stated: when the write of the catalogue file fails during add_item,
\* edit_item or delete_item, the call reports failure and raw_data,
\* grouped_data, configs_list, current_config and json_file are what they were
\* before the call.
C14_IOErrorsLeaveState ==
    [][(/\ last'.op \in {"add_item", "edit_item", "delete_item"}
        /\ last'.arg = [disk |-> "unwritable"]) =>
           /\ last'.ret = "fail"
           /\ UNCHANGED <<raw_data, grouped_data, configs_list, current_config,
                          json_file>>]_vars

\* C15 as stated: add_item returns (True, message) only when none of the four
\* fields it was given is empty after trimming, and an add that returned
\* (False, message) left raw_data, grouped_data and the catalogue file alone.
C15_AddValidation ==
    [][last'.op = "add_item" =>
           /\ last'.ret = "ok" =>
                  \A i \in 1..4 : Strip(last'.arg.given[i]) # <<>>
           /\ last'.ret = "fail" => UNCHANGED <<raw_data, grouped_data, files>>]_vars

\* C16 as stated: edit_item returns (True, message) only when neither the new
\* name nor the new path is empty, and an edit that returned (False, message)
\* left the item, raw_data, grouped_data and the catalogue file alone.
C16_EditValidation ==
    [][last'.op = "edit_item" =>
           /\ last'.ret = "ok" =>
                  last'.arg.new_name # <<>> /\ last'.arg.new_path # <<>>
           /\ last'.ret = "fail" => UNCHANGED <<raw_data, grouped_data, files>>]_vars

(***************************************************************************)
(* Properties of the launch (checked under SpecHistory)                    *)
(***************************************************************************)
\* C17: every launch_item call, whether the opener then raises or not, leaves
\* the history as it was plus exactly one entry at its end (cut to the last
\* 50), and that entry has the four keys timestamp, name, path and type with
\* the values of the call; the call returns (True, "") or (False, error) and
\* changes nothing of the catalogue or of the directory of configurations.
C17_HistoryRecordsAttempts ==
    [][last'.op = "launch_item" =>
           /\ launch_history' # <<>>
           /\ launch_history' =
                  LastN(launch_history \o <<launch_history'[Len(launch_history')]>>,
                        HistoryCap)
           /\ launch_history'[Len(launch_history')] =
                  [timestamp |-> now', name |-> NameAb, path |-> PathP,
                   type |-> WebPage]
           /\ last'.ret \in {"ok", "fail"}
           /\ UNCHANGED <<raw_data, grouped_data, configs_list, current_config,
                          json_file, files, app_config_file>>]_vars

\* C17's case: the opener raised, launch_item returned (False, error), and
\* the attempt is the newest entry of the history and of its file
C17_Witness ==
    /\ last.op = "launch_item" /\ last.ret = "fail"
    /\ launch_history # <<>>
    /\ launch_history[Len(launch_history)].timestamp = now
    /\ history_file = launch_history

DirE == <<"/", "e">>
AddDirectories == {<<>>, DirE}
AddFilenames == {<<>>, FileX, FileAJson}

NextAddConfig ==
    \/ \E name \in NewConfigNames, path \in AddDirectories, filename \in AddFilenames :
           add_config(name, path, filename)
    \/ \E name \in ConfigNames : delete_config(name)

SpecAddConfig == InitConfigs /\ [][NextAddConfig]_vars

\* C20 as stated: after add_config(name, directory, filename) returned
\* (True, message) the directory is what it was plus one entry at its end,
\* whose config_path joins the directory (the data root when it is empty) and
\* the filename (config_<slug(name)>.json when it is empty), with .json added
\* when the path does not end with it; the file at that path holds {} and
\* app_config.json holds the directory.
C20_AddConfigPath ==
    [][(last'.op = "add_config" /\ last'.ret = "ok") =>
           LET new == configs_list'[Len(configs_list')]
               directory == IF last'.arg.given.path = <<>> THEN data_dir
                            ELSE last'.arg.given.path
               filename == IF last'.arg.given.filename = <<>>
                           THEN ConfigPrefix \o ReplaceChar(Lower(new.name), " ", "_")
                                \o DotJson
                           ELSE last'.arg.given.filename
           IN  /\ configs_list' = Append(configs_list, new)
               /\ new.config_path = NormalizePath(PathJoin(directory, filename))
               /\ new.config_path \in DOMAIN files'
               /\ files'[new.config_path] = EmptyRaw
               /\ app_config_file' = configs_list']_vars

(***************************************************************************)
(* Properties of the filter and of addressing (checked under Spec)         *)
(***************************************************************************)
\* the text q, letter case set aside, is a contiguous part of the text s
OccursIn(q, s) ==
    \E i \in 1..(Len(s) + 1) : \E j \in (i - 1)..Len(s) :
        /\ j - i + 1 = Len(q)
        /\ \A k \in 1..Len(q) : LowerChar(s[i + k - 1]) = LowerChar(q[k])

\* C21: for every query that is not empty and under which get_filtered_items
\* returns, and every bucket of the grouped view: the bucket is in the result
\* exactly when one of its items has the query, letter case set aside, as a
\* part of its name or of its path; the items listed for it are exactly those
\* items, in bucket order; a category is in the result exactly when one of
\* its buckets is; and the result has no bucket the view does not have.
C21_NonEmptyQuery ==
    \A q \in Queries :
        (q # <<>> /\ ~FilterRaises(grouped_data, q)) =>
            LET out == get_filtered_items_of(grouped_data, q)
                all == BucketList(grouped_data)
                Hit(it) == \/ OccursIn(q, GetField(it, "name", <<>>))
                           \/ OccursIn(q, GetField(it, "path", <<>>))
                Listed(c, t) == [m \in DOMAIN BucketOf(out, c, t) |->
                                    BucketOf(out, c, t)[m][2]]
            IN  /\ \A n \in DOMAIN all :
                       /\ HasBucket(out, all[n].c, all[n].t)
                              <=> \E i \in DOMAIN all[n].v : Hit(all[n].v[i])
                       /\ Listed(all[n].c, all[n].t) = SelectSeq(all[n].v, Hit)
                /\ \A n \in DOMAIN BucketList(out) :
                       HasBucket(grouped_data, BucketList(out)[n].c, BucketList(out)[n].t)
                /\ \A k \in DOMAIN out : out[k].v # <<>>

\* C21's case: a query in upper case was asked of a view in which it leaves
\* out a whole category, and keeps an item that has it in its path only
C21_Witness ==
    /\ last.op = "get_filtered_items" /\ last.ret = "ok" /\ last.arg = <<"B">>
    /\ LET out == get_filtered_items_of(grouped_data, last.arg)
       IN  /\ Len(out) < Len(grouped_data)
           /\ \E n \in DOMAIN BucketList(out) : \E m \in DOMAIN BucketList(out)[n].v :
                  ~OccursIn(last.arg, BucketList(out)[n].v[m][2].name)

\* the items get_filtered_items lists under a query, each with its address
Listing(g, q) ==
    LET bl == BucketList(get_filtered_items_of(g, q))
    IN  UNION {{[c |-> bl[n].c, t |-> bl[n].t, idx |-> bl[n].v[m][1],
                 item |-> bl[n].v[m][2]] : m \in DOMAIN bl[n].v} : n \in DOMAIN bl}

\* the bucket (c, t) of a view, empty when the view has none
ViewBucket(g, c, t) == IF HasBucket(g, c, t) THEN BucketOf(g, c, t) ELSE <<>>

\* C22: with a nested catalogue loaded and shown, every (category, type,
\* index, item) that get_filtered_items lists under any query addresses that
\* item: delete_item at the address succeeds and the view of the result has
\* the bucket without exactly that item; edit_item at the address succeeds and
\* the view of the result has the bucket with exactly that item changed.
C22_AddressingAfterFilter ==
    (raw_data.shape = "map" /\ ~_normalize_raises(raw_data)
        /\ grouped_data = _normalize(raw_data)) =>
        \A q \in Queries : ~FilterRaises(grouped_data, q) =>
            \A a \in Listing(grouped_data, q) :
                LET was == BucketOf(grouped_data, a.c, a.t)
                    del == delete_item_raw(raw_data, a.c, a.t, a.idx)
                    ed  == edit_item_raw(raw_data, a.c, a.t, a.idx, NameC, PathB)
                IN  /\ was[a.idx + 1] = a.item
                    /\ del.ret = "ok"
                    /\ ViewBucket(_normalize(del.raw), a.c, a.t) = RemoveAt(was, a.idx)
                    /\ ed.ret = "ok"
                    /\ ViewBucket(_normalize(ed.raw), a.c, a.t) =
                           [was EXCEPT ![a.idx + 1] = Item2]

(***************************************************************************)
(* Properties of the flat shape in the one-file program (under SpecLegacy) *)
(***************************************************************************)
\* the view g2 is the view g with the bucket (c, t) replaced by items
SameButBucket(g, g2, c, t, items) ==
    /\ ViewBucket(g2, c, t) = items
    /\ \A n \in DOMAIN BucketList(g) :
           LET b == BucketList(g)[n]
           IN  (b.c # c \/ b.t # t) => ViewBucket(g2, b.c, b.t) = b.v
    /\ \A n \in DOMAIN BucketList(g2) :
           LET b == BucketList(g2)[n]
           IN  (b.c # c \/ b.t # t) => HasBucket(g, b.c, b.t)

\* C23: when delete_item is given an item of the view of a flat catalogue
\* and the file is written, the view afterwards is the view before without
\* the item at that index of that bucket: the removed record is the one the
\* view showed there, and every other item is where it was.
C23_FlatDelete ==
    [][(/\ last'.op = "ToolLauncher.delete_item" /\ last'.ret = "ok"
        /\ last'.arg.flat /\ last'.arg.disk = "written")
       => LET c == last'.arg.at[1]
              t == last'.arg.at[2]
              idx == last'.arg.at[3]
          IN  SameButBucket(grouped_data, grouped_data', c, t,
                            RemoveAt(BucketOf(grouped_data, c, t), idx))]_vars

\* C24: when submit_edit is given an item of the view of a flat catalogue,
\* a name and a path, and the file is written, the view afterwards is the
\* view before with exactly the item at that index of that bucket carrying
\* the new name and path, also when the catalogue holds an equal record
\* elsewhere; every other item is unchanged.
C24_FlatEdit ==
    [][(/\ last'.op = "submit_edit" /\ last'.ret = "ok"
        /\ last'.arg.flat /\ last'.arg.disk = "written")
       => LET c == last'.arg.at[1]
              t == last'.arg.at[2]
              idx == last'.arg.at[3]
              was == BucketOf(grouped_data, c, t)
          IN  \E name \in {Strip(n) : n \in FormNames}, path \in {Strip(f) : f \in FormPaths} :
                  SameButBucket(grouped_data, grouped_data', c, t,
                      [was EXCEPT ![idx + 1] =
                          SetField(SetField(was[idx + 1], "name", name), "path", path)])]_vars

(***************************************************************************)
(* Properties of the core's normalization and add (checked under Spec)     *)
(***************************************************************************)
\* the bucket n of a nested catalogue is the only one with its keys, letter
\* case set aside
OnlyOne(bl, n) ==
    \A m \in DOMAIN bl :
        (Lower(bl[m].c) = Lower(bl[n].c) /\ Lower(bl[m].t) = Lower(bl[n].t)) => m = n

\* C25: once select_config has loaded a catalogue, it has returned (a null
\* record of a list was skipped, not stumbled on), no item of the grouped
\* view is null or {}, and every bucket of a nested catalogue shows exactly
\* its non-null, non-empty entries in order: none for {}, one for a single
\* item object.
C25_NormalizationDropsEmpties ==
    (last.op = "select_config" /\ last.ret # "fail") =>
        /\ last.ret = "ok"
        /\ \A n \in DOMAIN BucketList(grouped_data) :
               \A i \in DOMAIN BucketList(grouped_data)[n].v :
                   Truthy(BucketList(grouped_data)[n].v[i])
        /\ raw_data.shape = "map" =>
               LET bl == BucketList(raw_data.cats)
               IN  \A n \in DOMAIN bl : OnlyOne(bl, n) =>
                       ViewBucket(grouped_data, Lower(bl[n].c), Lower(bl[n].t))
                           = SelectSeq(bl[n].v.items, Truthy)

\* the non-empty items of the buckets of a nested catalogue whose keys are
\* (c, t), letter case set aside, in the order the catalogue has them
RECURSIVE Merged(_, _, _)
Merged(bl, c, t) ==
    IF bl = <<>> THEN <<>>
    ELSE (IF Lower(Head(bl).c) = c /\ Lower(Head(bl).t) = t
          THEN SelectSeq(Head(bl).v.items, Truthy) ELSE <<>>)
         \o Merged(Tail(bl), c, t)

\* C26: once select_config has loaded a nested catalogue, every bucket of
\* it, its keys taken in lower case, shows as its non-empty items those of
\* all the buckets with these keys in any letter case, in the order of the
\* catalogue: each non-empty item of the catalogue is shown exactly once.
C26_CaseInsensitiveGrouping ==
    (last.op = "select_config" /\ last.ret = "ok" /\ raw_data.shape = "map") =>
        LET bl == BucketList(raw_data.cats)
        IN  \A n \in DOMAIN bl :
                SelectSeq(ViewBucket(grouped_data, Lower(bl[n].c), Lower(bl[n].t)), Truthy)
                    = Merged(bl, Lower(bl[n].c), Lower(bl[n].t))

\* C27: when add_item has succeeded on a nested catalogue, the grouped view
\* afterwards is the view before with the new item {name, path} appended to
\* the bucket (lower(category), lower(type)), which is created when the view
\* had none; every other bucket has the items it had, in the same order.
C27_AddAppends ==
    [][(last'.op = "add_item" /\ last'.ret = "ok" /\ raw_data.shape = "map")
       => SameButBucket(grouped_data, grouped_data', last'.arg.cat, last'.arg.typ,
              Append(ViewBucket(grouped_data, last'.arg.cat, last'.arg.typ),
                     [name |-> last'.arg.given[3], path |-> last'.arg.given[4]]))]_vars

(***************************************************************************)
(* ToolLauncherGUI: the sidebar and the item rows                          *)
(***************************************************************************)
ItemAdd == "item_add"
ItemEdit == "item_edit"

\* open_sidebar(mode, title, cat, typ, idx, itm): the mode is kept, and the
\* address and the item when an item was passed (`if itm`)
open_sidebar(mode, cat, typ, idx, itm) ==
    /\ sidebar_mode' = mode
    /\ editing_item' = IF Truthy(itm)
                       THEN [cat |-> cat, typ |-> typ, idx |-> idx, itm |-> itm]
                       ELSE Null
    /\ last' = Call("open_sidebar", "ok", <<>>)
    /\ UNCHANGED <<configs_list, current_config, json_file, raw_data, grouped_data,
                   launch_history, files, app_config_file, history_file, now>>

\* editing_item["itm"] is the dict object the raw list holds: when edit_item
\* assigns to the fields of that object, the kept item shows the new fields
Aliased(e, r, new_name, new_path) ==
    IF r.ret = "ok" /\ BucketOf(grouped_data, Lower(e.cat), Lower(e.typ))[e.idx + 1] = e.itm
    THEN [e EXCEPT !.itm = SetField(SetField(e.itm, "name", new_name), "path", new_path)]
    ELSE e

\* on_sidebar_save with the item fields of the form, in the item modes: add
\* takes the four fields, edit takes the address open_sidebar kept and the
\* name and path fields; in any other case the message is "Error"
on_sidebar_save(f_cat, f_type, f_iname, f_ipath) ==
    IF sidebar_mode = ItemAdd
    THEN add_item(f_cat, f_type, f_iname, f_ipath, "written")
    ELSE IF sidebar_mode = ItemEdit /\ editing_item # Null
    THEN LET r == edit_item_raw(raw_data, editing_item.cat, editing_item.typ,
                                editing_item.idx, f_iname, f_ipath)
         IN  /\ ItemEffect("edit_item", r,
                           [new_name |-> f_iname, new_path |-> f_ipath], "written")
             /\ editing_item' = Aliased(editing_item, r, f_iname, f_ipath)
             /\ UNCHANGED sidebar_mode
    ELSE /\ last' = Call("on_sidebar_save", "fail", <<>>)
         /\ UNCHANGED <<configs_list, current_config, json_file, raw_data,
                        grouped_data, launch_history, files, app_config_file,
                        history_file, now, sidebar_mode, editing_item>>

\* on_delete_item(cat, typ, idx), the question answered with yes
on_delete_item(cat, typ, idx) == delete_item(cat, typ, idx, "written")

\* on_config_change(selection)
on_config_change(selection) == select_config(selection)

\* the window starts on two configurations; _load_first_config, the last
\* step of __init__, is on_config_change of the first one
FileZ == <<"/", "d", "/", "z", ".", "j", "s", "o", "n">>

InitGUI ==
    /\ configs_list = <<[name |-> ConfigA, config_path |-> FileA],
                        [name |-> ConfigZ, config_path |-> FileZ]>>
    /\ app_config_file = configs_list
    /\ current_config = NoConfig
    /\ json_file = NoPath
    /\ raw_data = EmptyRaw
    /\ grouped_data = EmptyDict
    /\ launch_history = <<>>
    /\ history_file = <<>>
    /\ now = 0
    /\ sidebar_mode = <<>>
    /\ editing_item = Null
    /\ \E d \in {NestedRaw(<<Entry(dev, <<Entry(dir, ListBucket(<<Item1, Item2>>))>>)>>),
                 NestedRaw(<<Entry(dev, <<Entry(dir, ListBucket(<<Item1>>))>>)>>)} :
           files = (FileA :> d) @@
                   (FileZ :> NestedRaw(<<Entry(dev, <<Entry(dir, ListBucket(<<Item2>>))>>)>>))
    /\ last = Call("__init__", "ok", <<>>)

\* the rows are those of refresh_display with an empty search field
NextGUI ==
    \/ \E selection \in {ConfigA, ConfigZ} : on_config_change(selection)
    \/ \E row \in Listing(grouped_data, <<>>) :
           open_sidebar(ItemEdit, row.c, row.t, row.idx, row.item)
    \/ open_sidebar(ItemAdd, <<>>, <<>>, -1, Null)
    \/ \E f_iname \in NewNames, f_ipath \in NewPaths :
           on_sidebar_save(dev, dir, f_iname, f_ipath)
    \/ \E row \in Listing(grouped_data, <<>>) : on_delete_item(row.c, row.t, row.idx)

SpecGUI == InitGUI /\ [][NextGUI]_vars

\* C28: when the save button of the edit sidebar calls edit_item, the
\* address it passes is, in the view at that moment, the address of the item
\* for which the sidebar was opened, whatever was deleted, added or selected
\* since the sidebar was opened.
C28_CachedIndices ==
    [][(last'.op = "edit_item" /\ sidebar_mode = ItemEdit /\ editing_item # Null)
       => LET was == BucketOf(grouped_data, editing_item.cat, editing_item.typ)
          IN  /\ editing_item.idx < Len(was)
              /\ was[editing_item.idx + 1] = editing_item.itm]_vars

(***************************************************************************)
(* Properties of the catalogue files of the directory (under SpecConfigs)  *)
(***************************************************************************)
\* C29: after add_config or edit_config, no two entries of the directory
\* have the same config_path, and the catalogue file of every entry that was
\* there before, other than the entry being edited, is still there with the
\* content it had.
C29_DistinctCatalogues ==
    [][(last'.op \in {"add_config", "edit_config"})
       => /\ \A i, j \in DOMAIN configs_list' :
                 configs_list'[i].config_path = configs_list'[j].config_path => i = j
          /\ \A i \in DOMAIN configs_list :
                 LET p == configs_list[i].config_path
                 IN  (/\ p \in DOMAIN files
                      /\ last'.op = "edit_config" => configs_list[i] # current_config)
                     => (p \in DOMAIN files' /\ files'[p] = files[p])]_vars

(***************************************************************************)
(* Properties of refused item operations (checked under Spec)              *)
(***************************************************************************)
\* C30: with a catalogue loaded and shown, edit_item and delete_item given a
\* (category, type) the view has no bucket for, or an index below 0 or not
\* below the length of the bucket in the view, return failure and leave the
\* catalogue as it is.
C30_UnaddressableRefused ==
    (~_normalize_raises(raw_data) /\ grouped_data = _normalize(raw_data)) =>
        \A b \in Buckets, idx \in Indices :
            LET c == Lower(b[1])
                t == Lower(b[2])
            IN  (~HasBucket(grouped_data, c, t) \/ idx < 0
                    \/ idx >= Len(BucketOf(grouped_data, c, t)))
                => /\ edit_item_raw(raw_data, c, t, idx, NameC, PathB)
                          = Outcome("fail", raw_data)
                   /\ delete_item_raw(raw_data, c, t, idx) = Outcome("fail", raw_data)

=============================================================================
